---- MODULE Spec2Model ----
(***************************************************************************)
(* A model of update.py (autocmake): placeholder interpolation, the        *)
(* module-documentation parser, the prepend-or-set merge, module assembly  *)
(* and the generation of the module search-path registrations.             *)
(*                                                                         *)
(* Strings are sequences of one-character strings.  A value of the YAML    *)
(* configuration is a tagged record: [t |-> "str", v |-> <<chars>>],       *)
(* [t |-> "int", v |-> n] or [t |-> "map", v |-> <<entries>>].             *)
(***************************************************************************)
EXTENDS Integers, Sequences, FiniteSets, TLC

VARIABLES
    r_in,      \* replace: the argument s as passed
    r_d,       \* replace: the argument d
    r_s,       \* replace: the local s, rewritten by the loop
    r_intro,   \* replace: for each character of r_s, whether a substitution put it there
    r_vars,    \* replace: the list findall returned
    r_i,       \* replace: index of the next loop iteration
    r_reexp,   \* replace: whether some iteration replaced text a substitution put there
    r_pc,      \* replace: "idle", "loop", "done", "KeyError"
    i_orig,    \* interpolate: the structure as passed
    i_cfg,     \* interpolate: the structure d, rewritten in place
    i_alias,   \* interpolate: whether d_map is the same object as d
    i_pos,     \* interpolate: index of the next leaf, in iteration order
    i_pc,      \* interpolate: "idle", "loop", "done", "raised"
    g_modules, \* gen_cmakelists: the argument modules, a list of Module(path, name)
    g_rel,     \* gen_cmakelists: the argument relative_path
    g_paths,   \* gen_cmakelists: the local module_paths
    g_k,       \* gen_cmakelists: index of the next directory of the for loop
    g_out,     \* gen_cmakelists: the paths of the set(CMAKE_MODULE_PATH ...) lines appended to s
    g_pc,      \* gen_cmakelists: "idle", "collect", "set", "sort", "emit", "done"
    p_cfg,     \* prepend_or_set: the configuration, section -> (option -> value)
    p_defaults,\* prepend_or_set: the argument defaults
    p_before,  \* prepend_or_set: the configuration before the last call
    p_calls,   \* prepend_or_set: the (section, option, value) of the calls made, in order
    p_init,    \* prepend_or_set: the configuration before the first call
    p_pc,      \* prepend_or_set: "idle", "ready", "raised"
    t_text,    \* parse_cmake_module: s_in.split('\n'), the lines of the module text
    t_k,       \* parse_cmake_module: index of the next line of the for loop
    t_rst,     \* parse_cmake_module: is_rst_line
    t_out,     \* parse_cmake_module: s_out
    t_parsed,  \* parse_cmake_module: parsed_config, the five fields
    t_pc,      \* parse_cmake_module: "idle", "start", "scan", "returned", "IndexError",
               \*     "ParsingError", "InterpolationError"
    m_isdir,   \* main: os.path.isdir(project_root)
    m_name,    \* main: config['name'], None when the key is missing
    m_version, \* main: whether min_cmake_version is a key of config
    m_config,  \* fetch_modules: config, the sections in order, each option -> value
    m_pc,      \* the statement reached, "exited" after sys.exit or an exception
    m_n,       \* fetch_modules: n, the number of sections with a source option
    m_i,       \* fetch_modules: i, the sections whose sources are assembled
    m_sec,     \* fetch_modules: index of the section of the for loop of line 353
    m_src,     \* fetch_modules: the entries the for loop of line 355 has not finished
    m_cur,     \* fetch_modules: module_name, path, name, fetch_dst_directory, defaults
    m_todo,    \* fetch_modules: the entries the for loop of line 388 or 403 has not fetched
    m_modules, \* fetch_modules: modules
    m_warnings,\* fetch_modules: warnings
    m_parsed,  \* the records parse_cmake_module returned so far, with the module names
    m_log,     \* what the run did so far: fetches, path checks, parses, records
    m_stdout,  \* the warning reports printed
    m_stderr,  \* the error messages written
    m_exit,    \* the exit status, 0 while the process runs
    m_written  \* the files fetch_url saved

rvars == <<r_in, r_d, r_s, r_intro, r_vars, r_i, r_reexp, r_pc>>
ivars == <<i_orig, i_cfg, i_alias, i_pos, i_pc>>
gvars == <<g_modules, g_rel, g_paths, g_k, g_out, g_pc>>
pvars == <<p_cfg, p_defaults, p_before, p_calls, p_init, p_pc>>
tvars == <<t_text, t_k, t_rst, t_out, t_parsed, t_pc>>
mvars == <<m_isdir, m_name, m_version, m_config, m_pc, m_n, m_i, m_sec, m_src, m_cur, m_todo,
           m_modules, m_warnings, m_parsed, m_log, m_stdout, m_stderr, m_exit, m_written>>
vars == <<rvars, ivars, gvars, pvars, tvars, mvars>>

\* What the steps of one function leave alone: the variables of the others.
notReplace == <<ivars, gvars, pvars, tvars, mvars>>
notInterpolate == <<rvars, gvars, pvars, tvars, mvars>>
notGen == <<rvars, ivars, pvars, tvars, mvars>>
notPrepend == <<rvars, ivars, gvars, tvars, mvars>>
notParse == <<rvars, ivars, gvars, pvars, mvars>>
notMain == <<rvars, ivars, gvars, pvars, tvars>>

------------------------------------------------------------------------------
(* Strings *)

Str(v) == [t |-> "str", v |-> v]

RECURSIVE Concat(_)
Concat(ss) == IF ss = <<>> THEN <<>> ELSE Head(ss) \o Concat(Tail(ss))

\* s[i:i+len(p)] == p
StartsAt(s, i, p) == /\ i + Len(p) - 1 <= Len(s)
                     /\ SubSeq(s, i, i + Len(p) - 1) = p

Contains(s, p) == \E i \in 1..(Len(s) + 1) : StartsAt(s, i, p)

\* The characters of the model's alphabet that belong to [A-Za-z0-9_].
WordChars == {"a", "b", "q"}

------------------------------------------------------------------------------
(* replace, src/update.py 34-39 *)

\* The first position at or after i which holds no character of [A-Za-z0-9_].
RECURSIVE NameEnd(_, _)
NameEnd(s, i) == IF i <= Len(s) /\ s[i] \in WordChars THEN NameEnd(s, i + 1) ELSE i

\* Whether r"%\(([A-Za-z0-9_]*)\)" matches at position i.
MatchAt(s, i) == /\ i + 1 <= Len(s)
                 /\ s[i] = "%"
                 /\ s[i + 1] = "("
                 /\ NameEnd(s, i + 2) <= Len(s)
                 /\ s[NameEnd(s, i + 2)] = ")"

\* re.findall: the captured names of the non-overlapping matches, left to right.
RECURSIVE findall_from(_, _)
findall_from(s, i) ==
    IF i > Len(s) THEN <<>>
    ELSE IF MatchAt(s, i)
         THEN <<SubSeq(s, i + 2, NameEnd(s, i + 2) - 1)>>
                  \o findall_from(s, NameEnd(s, i + 2) + 1)
         ELSE findall_from(s, i + 1)

findall(s) == findall_from(s, 1)

\* "%({})".format(var)
Placeholder(var) == <<"%", "(">> \o var \o <<")">>

\* str.replace(old, new): every non-overlapping occurrence, left to right.
RECURSIVE str_replace_from(_, _, _, _)
str_replace_from(s, i, old, new) ==
    IF i > Len(s) THEN <<>>
    ELSE IF StartsAt(s, i, old)
         THEN new \o str_replace_from(s, i + Len(old), old, new)
         ELSE <<s[i]>> \o str_replace_from(s, i + 1, old, new)

str_replace(s, old, new) == str_replace_from(s, 1, old, new)

\* The same walk over the marks of the characters: a replacement is marked TRUE.
RECURSIVE intro_replace_from(_, _, _, _, _)
intro_replace_from(s, m, i, old, new) ==
    IF i > Len(s) THEN <<>>
    ELSE IF StartsAt(s, i, old)
         THEN [k \in 1..Len(new) |-> TRUE]
                  \o intro_replace_from(s, m, i + Len(old), old, new)
         ELSE <<m[i]>> \o intro_replace_from(s, m, i + 1, old, new)

\* Whether an occurrence that str.replace replaces holds a marked character.
RECURSIVE touches_intro_from(_, _, _, _)
touches_intro_from(s, m, i, old) ==
    IF i > Len(s) THEN FALSE
    ELSE IF StartsAt(s, i, old)
         THEN \/ \E k \in i..(i + Len(old) - 1) : m[k]
              \/ touches_intro_from(s, m, i + Len(old), old)
         ELSE touches_intro_from(s, m, i + 1, old)

\* d[var] raises: no such key (KeyError), or not a string (TypeError in str.replace).
lookup_raises(d, var) == IF var \in DOMAIN d THEN d[var].t # "str" ELSE TRUE

replace_raises(s, d) ==
    /\ s.t = "str"
    /\ \E k \in DOMAIN findall(s.v) : lookup_raises(d, findall(s.v)[k])

RECURSIVE replace_loop(_, _, _, _)
replace_loop(s, names, k, d) ==
    IF k > Len(names) THEN s
    ELSE replace_loop(str_replace(s, Placeholder(names[k]), d[names[k]].v),
                      names, k + 1, d)

\* replace(s, d) where it does not raise; a value that is not a string is returned as is.
replace(s, d) == IF s.t = "str"
                 THEN Str(replace_loop(s.v, findall(s.v), 1, d))
                 ELSE s

------------------------------------------------------------------------------
(* The inputs of replace *)

\* The most pieces a string passed to replace is made of.
MaxPieces == 3

Pieces == { <<"%", "(", "a", ")">>, <<"%", "(", "b", ")">>, <<"%", "(">>,
            <<"b", ")">>, <<" ">>, <<"q">> }

StringsOf(n) == UNION { { Concat(ps) : ps \in [1..k -> Pieces] } : k \in 0..n }

\* The replacement strings.
Values == { <<>>, <<"q">>, <<"%", "(", "b", ")">>, <<"%", "(", "a", ")">> }

NameA == <<"a">>
NameB == <<"b">>

\* Mappings with an entry for a and b, and mappings that lack b.
Mappings == { [n \in {NameA, NameB} |-> Str(f[n])] : f \in [{NameA, NameB} -> Values] }
            \cup { [n \in {NameA} |-> Str(v)] : v \in Values }

IdleReplace == /\ r_in = <<>> /\ r_d = <<>> /\ r_s = <<>> /\ r_intro = <<>>
               /\ r_vars = <<>> /\ r_i = 0 /\ r_reexp = FALSE /\ r_pc = "idle"

IdleInterpolate == /\ i_orig = <<>> /\ i_cfg = <<>> /\ i_alias = FALSE
                   /\ i_pos = 0 /\ i_pc = "idle"

IdleGen == /\ g_modules = <<>> /\ g_rel = <<>> /\ g_paths = <<>>
           /\ g_k = 0 /\ g_out = <<>> /\ g_pc = "idle"

IdlePrepend == /\ p_cfg = <<>> /\ p_defaults = <<>> /\ p_before = <<>>
               /\ p_calls = <<>> /\ p_init = <<>> /\ p_pc = "idle"

IdleParse == /\ t_text = <<>> /\ t_k = 0 /\ t_rst = FALSE /\ t_out = <<>>
             /\ t_parsed = <<>> /\ t_pc = "idle"

IdleFetch == /\ m_config = <<>> /\ m_n = 0 /\ m_i = 0 /\ m_sec = 0 /\ m_src = <<>>
             /\ m_cur = <<>> /\ m_todo = <<>> /\ m_modules = <<>> /\ m_warnings = <<>>
             /\ m_parsed = <<>> /\ m_log = <<>> /\ m_stdout = <<>> /\ m_stderr = <<>>
             /\ m_exit = 0 /\ m_written = {}
IdleMain == /\ m_isdir = FALSE /\ m_name = <<>> /\ m_version = FALSE /\ m_pc = "idle"
            /\ IdleFetch

InitReplace ==
    /\ r_in \in StringsOf(MaxPieces)
    /\ r_d \in Mappings
    /\ r_s = r_in
    /\ r_intro = [k \in 1..Len(r_in) |-> FALSE]
    /\ r_vars = <<>>
    /\ r_i = 0
    /\ r_reexp = FALSE
    /\ r_pc = "idle"
    /\ IdleInterpolate /\ IdleGen /\ IdlePrepend /\ IdleParse /\ IdleMain

\* line 37, the iterable of the for statement: findall is evaluated once, on s as passed.
ReplaceFindall ==
    /\ r_pc = "idle"
    /\ r_vars' = findall(r_s)
    /\ r_i' = 1
    /\ r_pc' = "loop"
    /\ UNCHANGED <<r_in, r_d, r_s, r_intro, r_reexp, notReplace>>

\* line 38, one iteration: s = s.replace("%({})".format(var), d[var])
ReplaceIteration ==
    /\ r_pc = "loop"
    /\ r_i <= Len(r_vars)
    /\ ~lookup_raises(r_d, r_vars[r_i])
    /\ LET old == Placeholder(r_vars[r_i])
           new == r_d[r_vars[r_i]].v
       IN /\ r_s' = str_replace(r_s, old, new)
          /\ r_intro' = intro_replace_from(r_s, r_intro, 1, old, new)
          /\ r_reexp' = (r_reexp \/ touches_intro_from(r_s, r_intro, 1, old))
    /\ r_i' = r_i + 1
    /\ UNCHANGED <<r_in, r_d, r_vars, r_pc, notReplace>>

\* line 38, d[var] raises
ReplaceRaise ==
    /\ r_pc = "loop"
    /\ r_i <= Len(r_vars)
    /\ lookup_raises(r_d, r_vars[r_i])
    /\ r_pc' = "KeyError"
    /\ UNCHANGED <<r_in, r_d, r_s, r_intro, r_vars, r_i, r_reexp, notReplace>>

\* line 39, return s
ReplaceReturn ==
    /\ r_pc = "loop"
    /\ r_i > Len(r_vars)
    /\ r_pc' = "done"
    /\ UNCHANGED <<r_in, r_d, r_s, r_intro, r_vars, r_i, r_reexp, notReplace>>

NextReplace == \/ ReplaceFindall
               \/ ReplaceIteration
               \/ ReplaceRaise
               \/ ReplaceReturn

SpecReplace == InitReplace /\ [][NextReplace]_vars

\* Every match of the placeholder pattern in s replaced by d[name], in one pass over s.
RECURSIVE substituted_from(_, _, _)
substituted_from(s, i, d) ==
    IF i > Len(s) THEN <<>>
    ELSE IF MatchAt(s, i)
         THEN d[SubSeq(s, i + 2, NameEnd(s, i + 2) - 1)].v
                  \o substituted_from(s, NameEnd(s, i + 2) + 1, d)
         ELSE <<s[i]>> \o substituted_from(s, i + 1, d)

\* C3: whenever d has an entry for each placeholder name of s, replace(s, d) returns
\* s with every occurrence of every placeholder %(name) substituted by d[name]; a
\* string without placeholders is returned unchanged.
C3_EveryPlaceholderSubstituted ==
    r_pc = "done" => r_s = substituted_from(r_in, 1, r_d)

\* C4: replace is single-pass: no iteration of the loop replaces placeholder text
\* that an earlier substitution put into the string.
C4_SinglePass ==
    r_pc = "done" => ~r_reexp

------------------------------------------------------------------------------
(* interpolate, src/update.py 49-56 *)

Num(n) == [t |-> "int", v |-> n]
Map(es) == [t |-> "map", v |-> es]
Entry(k, val) == [k |-> k, val |-> val]

\* The leaves of a mapping in the order d.items() and the recursion visit them:
\* <<i>> is the i-th value, <<i, j>> the j-th value of the mapping that is the i-th value.
RECURSIVE LeafPathsFrom(_, _)
LeafPathsFrom(es, i) ==
    IF i > Len(es) THEN <<>>
    ELSE (IF es[i].val.t = "map"
          THEN [j \in 1..Len(es[i].val.v) |-> <<i, j>>]
          ELSE << <<i>> >>) \o LeafPathsFrom(es, i + 1)

LeafPaths(es) == LeafPathsFrom(es, 1)

Leaf(es, p) == IF Len(p) = 1 THEN es[p[1]].val ELSE es[p[1]].val.v[p[2]].val

\* d[k] = v at the leaf p
SetLeaf(es, p, v) ==
    IF Len(p) = 1
    THEN [es EXCEPT ![p[1]].val = v]
    ELSE [es EXCEPT ![p[1]].val.v[p[2]].val = v]

\* The mapping as d_map[var] reads it: the top-level keys only.
DMapOf(es) == [n \in {es[i].k : i \in DOMAIN es} |->
                   es[CHOOSE i \in DOMAIN es : es[i].k = n].val]

\* d_map as the leaf at position i_pos sees it.
CurrentMap == IF i_alias THEN DMapOf(i_cfg) ELSE DMapOf(i_orig)

NameQ == <<"q">>

InterpValues == { <<"q">>, <<"%", "(", "a", ")">>, <<"%", "(", "b", ")">>,
                  <<"%", "(", "q", ")">> }

\* The entries of the configurations: two strings, a nested mapping and a number.
EntriesOf(va, vb, vn) ==
    { Entry(NameA, Str(va)), Entry(NameB, Str(vb)),
      Entry(<<"n">>, Map(<<Entry(NameA, Str(vn))>>)), Entry(NameQ, Num(7)) }

\* Every order of the entries of a set.
Orders(S) == { f \in [1..Cardinality(S) -> S] :
                   \A i, j \in 1..Cardinality(S) : i # j => f[i] # f[j] }

Configs == UNION { Orders(EntriesOf(va, vb, vn)) :
                       va \in InterpValues, vb \in InterpValues, vn \in InterpValues }

InitInterpolate ==
    /\ i_orig \in Configs
    /\ i_cfg = i_orig
    /\ i_alias \in BOOLEAN
    /\ i_pos = 1
    /\ i_pc = "loop"
    /\ IdleReplace /\ IdleGen /\ IdlePrepend /\ IdleParse /\ IdleMain

\* lines 51-55, one leaf: d[k] = replace(d[k], d_map)
InterpolateLeaf ==
    /\ i_pc = "loop"
    /\ i_pos <= Len(LeafPaths(i_cfg))
    /\ LET p == LeafPaths(i_cfg)[i_pos]
       IN /\ ~replace_raises(Leaf(i_cfg, p), CurrentMap)
          /\ i_cfg' = SetLeaf(i_cfg, p, replace(Leaf(i_cfg, p), CurrentMap))
    /\ i_pos' = i_pos + 1
    /\ UNCHANGED <<i_orig, i_alias, i_pc, notInterpolate>>

\* line 55, replace raises: a placeholder names no key, or a key that holds no string
InterpolateRaise ==
    /\ i_pc = "loop"
    /\ i_pos <= Len(LeafPaths(i_cfg))
    /\ replace_raises(Leaf(i_cfg, LeafPaths(i_cfg)[i_pos]), CurrentMap)
    /\ i_pc' = "raised"
    /\ UNCHANGED <<i_orig, i_cfg, i_alias, i_pos, notInterpolate>>

\* line 56, return d
InterpolateReturn ==
    /\ i_pc = "loop"
    /\ i_pos > Len(LeafPaths(i_cfg))
    /\ i_pc' = "done"
    /\ UNCHANGED <<i_orig, i_cfg, i_alias, i_pos, notInterpolate>>

NextInterpolate == \/ InterpolateLeaf
                   \/ InterpolateRaise
                   \/ InterpolateReturn

SpecInterpolate == InitInterpolate /\ [][NextInterpolate]_vars

\* C5: every leaf of the structure that interpolate returns equals replace applied
\* to the leaf as passed and the mapping as passed, also when d_map is d itself.
C5_LeavesIndependent ==
    i_pc = "done" =>
        \A k \in DOMAIN LeafPaths(i_orig) :
            Leaf(i_cfg, LeafPaths(i_orig)[k])
                = replace(Leaf(i_orig, LeafPaths(i_orig)[k]), DMapOf(i_orig))

------------------------------------------------------------------------------
(* gen_cmakelists, src/update.py 271-311: the module search-path registrations *)

\* ord(c) of the characters that occur in directories.
Ord(c) == CASE c = "." -> 46  [] c = "/" -> 47  [] c = "2" -> 50  [] c = "\\" -> 92
            [] c = "a" -> 97  [] c = "c" -> 99  [] c = "d" -> 100 [] c = "e" -> 101
            [] c = "l" -> 108 [] c = "n" -> 110 [] c = "o" -> 111 [] c = "w" -> 119

\* a < b for two str, as list.sort compares them: by the first differing character,
\* a proper prefix first.
RECURSIVE StrLess(_, _)
StrLess(a, b) ==
    IF b = <<>> THEN FALSE
    ELSE IF a = <<>> THEN TRUE
    ELSE IF Head(a) = Head(b) THEN StrLess(Tail(a), Tail(b))
    ELSE Ord(Head(a)) < Ord(Head(b))

\* The list with x inserted before the first element that is greater than x.
RECURSIVE InsertSorted(_, _)
InsertSorted(x, q) ==
    IF q = <<>> THEN <<x>>
    ELSE IF StrLess(x, Head(q)) THEN <<x>> \o q
    ELSE <<Head(q)>> \o InsertSorted(x, Tail(q))

RECURSIVE SortedFrom(_, _)
SortedFrom(q, acc) == IF q = <<>> THEN acc ELSE SortedFrom(Tail(q), InsertSorted(Head(q), acc))

\* A module_paths.sort() that leaves the list as it is.
unsorted(q) == q

\* module_paths.sort()
sort(q) == SortedFrom(q, <<>>)

\* The value of download_directory, and the literal of line 297.
downloaded == <<"d", "o", "w", "n", "l", "o", "a", "d", "e", "d">>

\* os.path.join(relative_path, directory) of posixpath
path_join(a, b) ==
    IF b # <<>> /\ Head(b) = "/" THEN b
    ELSE IF a = <<>> \/ a[Len(a)] = "/" THEN a \o b
    ELSE a \o <<"/">> \o b

\* lines 301-303: the path a set(CMAKE_MODULE_PATH ...) line is formatted with
rel_cmake_module_path(rel, directory) ==
    [k \in DOMAIN path_join(rel, directory) |->
        IF path_join(rel, directory)[k] = "\\" THEN "/" ELSE path_join(rel, directory)[k]]

Module(path, name) == [path |-> path, name |-> name]

\* The most module descriptors passed to gen_cmakelists.
MaxModules == 3

\* Directories of modules: downloaded, the current directory, relative
\* directories, one written with a backslash, and an absolute one.
Dirs == { downloaded, <<>>, <<"c", "2">>, <<"c", "/", "d">>, <<"c", "\\", "d">>, <<"/", "c">> }

ModuleLists == UNION { [1..n -> { Module(dir, <<"a">>) : dir \in Dirs }] : n \in 0..MaxModules }

\* os.path.relpath(os.path.abspath('.'), project_root)
RelativePaths == { <<".">>, <<".", ".">> }

InitGen ==
    /\ g_modules \in ModuleLists
    /\ g_rel \in RelativePaths
    /\ g_paths = <<>>
    /\ g_k = 0
    /\ g_out = <<>>
    /\ g_pc = "collect"
    /\ IdleReplace /\ IdleInterpolate /\ IdlePrepend /\ IdleParse /\ IdleMain

\* lines 296-297
GenCollect ==
    /\ g_pc = "collect"
    /\ g_paths' = [k \in DOMAIN g_modules |-> g_modules[k].path] \o <<downloaded>>
    /\ g_pc' = "set"
    /\ UNCHANGED <<g_modules, g_rel, g_k, g_out, notGen>>

\* line 298: list(set(module_paths)) holds each element once, in the order of the set
GenSet ==
    /\ g_pc = "set"
    /\ g_paths' \in Orders({ g_paths[k] : k \in DOMAIN g_paths })
    /\ g_pc' = "sort"
    /\ UNCHANGED <<g_modules, g_rel, g_k, g_out, notGen>>

\* line 299
GenSort ==
    /\ g_pc = "sort"
    /\ g_paths' = sort(g_paths)
    /\ g_k' = 1
    /\ g_pc' = "emit"
    /\ UNCHANGED <<g_modules, g_rel, g_out, notGen>>

\* lines 300-304, one directory
GenEmit ==
    /\ g_pc = "emit"
    /\ g_k <= Len(g_paths)
    /\ g_out' = Append(g_out, rel_cmake_module_path(g_rel, g_paths[g_k]))
    /\ g_k' = g_k + 1
    /\ UNCHANGED <<g_modules, g_rel, g_paths, g_pc, notGen>>

\* the end of the for loop of line 300
GenEmitted ==
    /\ g_pc = "emit"
    /\ g_k > Len(g_paths)
    /\ g_pc' = "done"
    /\ UNCHANGED <<g_modules, g_rel, g_paths, g_k, g_out, notGen>>

NextGen == \/ GenCollect
           \/ GenSet
           \/ GenSort
           \/ GenEmit
           \/ GenEmitted

SpecGen == InitGen /\ [][NextGen]_vars

\* list(set(q)) in one of its orders
RECURSIVE listed(_)
listed(S) == IF S = {} THEN <<>>
             ELSE LET x == CHOOSE y \in S : TRUE IN <<x>> \o listed(S \ {x})

\* lines 296-304 as a function of the arguments: the paths of the registrations
registrations(rel, modules) ==
    LET q == sort(listed({ modules[k].path : k \in DOMAIN modules } \cup {downloaded}))
    IN [k \in DOMAIN q |-> rel_cmake_module_path(rel, q[k])]

Ascending(q) == \A i, j \in DOMAIN q : i < j => StrLess(q[i], q[j])

ModuleDirs == { g_modules[k].path : k \in DOMAIN g_modules }

Reorderings(q) == { [k \in DOMAIN q |-> q[f[k]]] : f \in Orders(DOMAIN q) }

\* C9 as stated: the emitted registrations hold the registration of each distinct
\* directory of the descriptors exactly once, they are in ascending order, and
\* every permutation of the descriptors gives the same registrations.
C9_RegistrationsSortedDistinct ==
    g_pc = "done" =>
        /\ \A dir \in ModuleDirs :
               Cardinality({ k \in DOMAIN g_out :
                                 g_out[k] = rel_cmake_module_path(g_rel, dir) }) = 1
        /\ Ascending(g_out)
        /\ \A perm \in Reorderings(g_modules) : registrations(g_rel, perm) = g_out

\* C9 amended: the directories registered are the distinct directory strings of the
\* descriptors and 'downloaded', each once, in ascending order of the strings as the
\* descriptors hold them (before the join and the backslash replacement); one
\* registration is emitted per directory, in that order; every permutation of the
\* descriptors gives the same registrations.
C9_DirectoriesSortedDistinct ==
    g_pc = "done" =>
        /\ Ascending(g_paths)
        /\ { g_paths[k] : k \in DOMAIN g_paths } = ModuleDirs \cup {downloaded}
        /\ Len(g_out) = Len(g_paths)
        /\ \A k \in DOMAIN g_paths : g_out[k] = rel_cmake_module_path(g_rel, g_paths[k])
        /\ \A perm \in Reorderings(g_modules) : registrations(g_rel, perm) = g_out

\* A list of three descriptors that repeats a directory and is not in ascending
\* order has been registered.
C9_Witness ==
    /\ g_pc = "done"
    /\ Len(g_modules) = 3
    /\ g_modules[1].path = g_modules[3].path
    /\ StrLess(g_modules[2].path, g_modules[1].path)
    /\ Len(g_out) = 3

------------------------------------------------------------------------------
(* The ConfigParser that prepend_or_set and parse_cmake_module use, as the calls
   has_option(section, option), get(section, option, 0, defaults) and
   set(section, option, value) of lines 323-325 and 563-564 use it: get is called
   with raw = 0 and vars = defaults, so it interpolates the value it reads.
   An option value is a sequence of tokens: a character, "\n", or a reference
   "%(key)s" to a key, taken as one token. *)

\* The key a token refers to; "" for a token that is no reference.
KeyOf(tok) == CASE tok = "%(x)s" -> "x"
                [] tok = "%(define)s" -> "define"
                [] OTHER -> ""

HasReference(v) == \E k \in DOMAIN v : KeyOf(v[k]) # ""

Good(v) == [ok |-> TRUE, v |-> v]
Raised == [ok |-> FALSE, v |-> <<>>]

\* config.has_option(section, option)
has_option(config, section, option) == option \in DOMAIN config[section]

\* config.set(section, option, value)
cp_set(config, section, option, value) ==
    [config EXCEPT ![section] = (option :> value) @@ config[section]]

\* The mapping get looks keys up in: vars first, then the options of the section.
cp_chain(config, section, defaults) == defaults @@ config[section]

\* value % chain: every reference replaced by the value of its key
RECURSIVE cp_substitute(_, _)
cp_substitute(v, chain) ==
    IF v = <<>> THEN <<>>
    ELSE (IF KeyOf(Head(v)) # "" THEN chain[KeyOf(Head(v))] ELSE <<Head(v)>>)
             \o cp_substitute(Tail(v), chain)

\* The interpolation loop of get: at most depth passes, while the value holds a
\* reference; a reference to a missing key raises, and so does a reference left
\* after the last pass.
RECURSIVE cp_interpolate(_, _, _)
cp_interpolate(v, chain, depth) ==
    IF ~HasReference(v) THEN Good(v)
    ELSE IF depth = 0 THEN Raised
    ELSE IF \E k \in DOMAIN v : KeyOf(v[k]) # "" /\ KeyOf(v[k]) \notin DOMAIN chain
         THEN Raised
    ELSE cp_interpolate(cp_substitute(v, chain), chain, depth - 1)

\* config.get(section, option, 0, defaults); the depth is MAX_INTERPOLATION_DEPTH
cp_get(config, section, option, defaults) ==
    IF option \notin DOMAIN cp_chain(config, section, defaults) THEN Raised
    ELSE cp_interpolate(cp_chain(config, section, defaults)[option],
                        cp_chain(config, section, defaults), 10)

------------------------------------------------------------------------------
(* prepend_or_set, src/update.py 316-326 *)

None == [t |-> "none", v |-> <<>>]

\* if value:
truthy(value) == value.t = "str" /\ value.v # <<>>

\* The call raises: the value of the option that is already set cannot be read.
prepend_or_set_raises(config, section, option, value, defaults) ==
    /\ truthy(value)
    /\ has_option(config, section, option)
    /\ ~cp_get(config, section, option, defaults).ok

\* A prepend_or_set that puts the value after the previous content.
append_or_set(config, section, option, value, defaults) ==
    IF truthy(value)
    THEN IF has_option(config, section, option)
         THEN cp_set(config, section, option,
                     cp_get(config, section, option, defaults).v \o <<"\n">> \o value.v)
         ELSE cp_set(config, section, option, value.v)
    ELSE config

\* The configuration prepend_or_set returns, where it does not raise.
prepend_or_set(config, section, option, value, defaults) ==
    IF truthy(value)
    THEN IF has_option(config, section, option)
         THEN cp_set(config, section, option,
                     value.v \o <<"\n">> \o cp_get(config, section, option, defaults).v)
         ELSE cp_set(config, section, option, value.v)
    ELSE config

\* The most calls of prepend_or_set in a run.
MaxCalls == 2

SectionNames == {"s1", "s2"}
OptionNames == {"docopt", "define"}

\* What an option holds before the calls.
OptionValues == { <<"U">>, <<"%(x)s">>, <<"U", "\n", "%(define)s">> }

\* The options of a section: none, or docopt, or docopt and define.
SectionContents == { <<>> }
                   \cup { ("docopt" :> v) : v \in OptionValues }
                   \cup { ("docopt" :> v) @@ ("define" :> <<"U">>) : v \in OptionValues }

\* The candidate values: absent, empty, 'A', 'B', and one with a reference.
CandidateValues == { None, Str(<<>>), Str(<<"A">>), Str(<<"B">>), Str(<<"A", "%(x)s">>) }

\* The override mappings: none, one for a key x, one for a key named as an option.
DefaultsChoices == { <<>>, ("x" :> <<"X">>), ("docopt" :> <<"Z">>) }

InitPrepend ==
    /\ p_cfg \in [SectionNames -> SectionContents]
    /\ p_defaults \in DefaultsChoices
    /\ p_before = p_cfg
    /\ p_init = p_cfg
    /\ p_calls = <<>>
    /\ p_pc = "ready"
    /\ IdleReplace /\ IdleInterpolate /\ IdleGen /\ IdleParse /\ IdleMain

\* lines 322-326, a call that returns
PrependOrSet(section, option, value) ==
    /\ p_pc = "ready"
    /\ Len(p_calls) < MaxCalls
    /\ ~prepend_or_set_raises(p_cfg, section, option, value, p_defaults)
    /\ p_cfg' = prepend_or_set(p_cfg, section, option, value, p_defaults)
    /\ p_before' = p_cfg
    /\ p_calls' = Append(p_calls, <<section, option, value>>)
    /\ UNCHANGED <<p_defaults, p_init, p_pc, notPrepend>>

\* line 324, config.get raises
PrependOrSetRaise(section, option, value) ==
    /\ p_pc = "ready"
    /\ Len(p_calls) < MaxCalls
    /\ prepend_or_set_raises(p_cfg, section, option, value, p_defaults)
    /\ p_before' = p_cfg
    /\ p_calls' = Append(p_calls, <<section, option, value>>)
    /\ p_pc' = "raised"
    /\ UNCHANGED <<p_cfg, p_defaults, p_init, notPrepend>>

NextPrepend ==
    \/ \E section \in SectionNames, option \in OptionNames, value \in CandidateValues :
           PrependOrSet(section, option, value)
    \/ \E section \in SectionNames, option \in OptionNames, value \in CandidateValues :
           PrependOrSetRaise(section, option, value)

SpecPrepend == InitPrepend /\ [][NextPrepend]_vars

\* The last call made: its section, option and value, and what the option held.
LastSection == p_calls[Len(p_calls)][1]
LastOption == p_calls[Len(p_calls)][2]
LastValue == p_calls[Len(p_calls)][3]
WasSet == LastOption \in DOMAIN p_before[LastSection]

\* Every option but the one of the last call is as it was before the call.
OthersUntouched ==
    \A sec \in SectionNames :
        /\ DOMAIN p_cfg[sec] \ {LastOption} = DOMAIN p_before[sec] \ {LastOption}
        /\ \A opt \in DOMAIN p_before[sec] :
               (sec # LastSection \/ opt # LastOption) => p_cfg[sec][opt] = p_before[sec][opt]

\* 'A' and then 'B' were applied to one option of one section that was unset.
AThenB ==
    /\ Len(p_calls) = 2
    /\ p_calls[1][1] = p_calls[2][1]
    /\ p_calls[1][2] = p_calls[2][2]
    /\ p_calls[1][3] = Str(<<"A">>)
    /\ p_calls[2][3] = Str(<<"B">>)
    /\ p_calls[1][2] \notin DOMAIN p_init[p_calls[1][1]]

\* C1 as stated: an unset option becomes value; an option set to prev becomes
\* value + '\n' + prev, prev unchanged; an absent or empty value changes nothing;
\* 'A' then 'B' on an unset option leave 'B\nA'.
C1_PreviousContentUnchanged ==
    p_calls # <<>> /\ p_pc = "ready" =>
        /\ ~truthy(LastValue) => p_cfg = p_before
        /\ truthy(LastValue) /\ ~WasSet => p_cfg[LastSection][LastOption] = LastValue.v
        /\ truthy(LastValue) /\ WasSet =>
               p_cfg[LastSection][LastOption]
                   = LastValue.v \o <<"\n">> \o p_before[LastSection][LastOption]
        /\ AThenB => p_cfg[LastSection][LastOption] = <<"B", "\n", "A">>

\* C1 amended: an unset option becomes value; an option that is set becomes value,
\* a newline, and the previous content as config.get(section, option, 0, defaults)
\* reads it, with its %(key)s references resolved: that is prev itself when prev
\* holds no reference and defaults has no key named as the option; no other option
\* changes; an absent or empty value changes nothing; a call whose read raises
\* changes nothing; 'A' then 'B' on an unset option leave 'B\nA' when defaults has
\* no key named as the option.
C1_PrependsPreviousAsRead ==
    p_calls # <<>> =>
        /\ OthersUntouched
        /\ ~truthy(LastValue) => p_cfg = p_before /\ p_pc = "ready"
        /\ truthy(LastValue) /\ ~WasSet =>
               p_cfg[LastSection][LastOption] = LastValue.v /\ p_pc = "ready"
        /\ truthy(LastValue) /\ WasSet /\ p_pc = "ready" =>
               /\ StartsAt(p_cfg[LastSection][LastOption], 1, LastValue.v \o <<"\n">>)
               /\ ~HasReference(SubSeq(p_cfg[LastSection][LastOption],
                                       Len(LastValue.v) + 2,
                                       Len(p_cfg[LastSection][LastOption])))
               /\ (/\ ~HasReference(p_before[LastSection][LastOption])
                   /\ LastOption \notin DOMAIN p_defaults)
                  => p_cfg[LastSection][LastOption]
                         = LastValue.v \o <<"\n">> \o p_before[LastSection][LastOption]
        /\ p_pc = "raised" => p_cfg = p_before /\ truthy(LastValue) /\ WasSet
        /\ AThenB /\ LastOption \notin DOMAIN p_defaults =>
               p_cfg[LastSection][LastOption] = <<"B", "\n", "A">>

\* 'A' then 'B' were applied to an unset option, which now holds 'B\nA'.
C1_Witness ==
    /\ AThenB
    /\ p_pc = "ready"
    /\ p_cfg[LastSection][LastOption] = <<"B", "\n", "A">>

------------------------------------------------------------------------------
(* parse_cmake_module, src/update.py 529-566.
   The module text is a list of lines, a line a sequence of tokens: the characters
   "#", ".", "a", " ", ":", "c", "v", a reference "%(x)s", and the words of the
   source, each one token: "rst" (so that '#.rst:' is "#", ".", "rst", ":"), the
   marker after its first letter and before its colons, and the names of the
   fields.  The first two tokens of every line are characters, so that line[2:]
   drops two tokens. *)

marker == <<"a", "utocmake.yml configuration", ":", ":">>
rst_start == <<"#", ".", "rst", ":">>

FieldNames == {"docopt", "define", "export", "fetch", "warning"}

\* collections.defaultdict(lambda: None) read at the five fields
all_absent == [f \in FieldNames |-> None]

\* A defaultdict whose missing fields read as the empty string.
all_empty == [f \in FieldNames |-> Str(<<>>)]

\* parsed_config before any field is stored: what a field that is never stored reads as
new_parsed_config == all_absent

\* '\n'.join(lines)
RECURSIVE join_lines(_)
join_lines(lines) ==
    IF lines = <<>> THEN <<>>
    ELSE IF Len(lines) = 1 THEN lines[1]
    ELSE lines[1] \o <<"\n">> \o join_lines(Tail(lines))

\* The position of the first "\n" of s at or after i, Len(s) + 1 if there is none.
RECURSIVE NextBreak(_, _)
NextBreak(s, i) == IF i > Len(s) \/ s[i] = "\n" THEN i ELSE NextBreak(s, i + 1)

\* s.split('\n'), from position i
RECURSIVE split_lines_from(_, _)
split_lines_from(s, i) ==
    IF NextBreak(s, i) > Len(s) THEN <<SubSeq(s, i, Len(s))>>
    ELSE <<SubSeq(s, i, NextBreak(s, i) - 1)>> \o split_lines_from(s, NextBreak(s, i) + 1)

split_lines(s) == split_lines_from(s, 1)

\* The position of the first occurrence of p in s at or after i, 0 if there is none.
RECURSIVE find_from(_, _, _)
find_from(s, i, p) ==
    IF i + Len(p) - 1 > Len(s) THEN 0
    ELSE IF StartsAt(s, i, p) THEN i
    ELSE find_from(s, i + 1, p)

\* s.split(p)[1]: what follows the first p, up to the next p; s holds p
second_fragment(s, p) ==
    LET a == find_from(s, 1, p) + Len(p)
        b == find_from(s, a, p)
    IN IF b = 0 THEN SubSeq(s, a, Len(s)) ELSE SubSeq(s, a, b - 1)

\* The characters str.strip and str.rstrip remove, of those of the model's alphabet.
Whitespace == {" ", "\t", "\n"}

\* line.strip()
RECURSIVE lstrip(_)
lstrip(s) == IF s # <<>> /\ Head(s) \in Whitespace THEN lstrip(Tail(s)) ELSE s

RECURSIVE rstrip(_)
rstrip(s) == IF s # <<>> /\ s[Len(s)] \in Whitespace
             THEN rstrip(SubSeq(s, 1, Len(s) - 1))
             ELSE s

strip(s) == rstrip(lstrip(s))

\* The line is one that readfp skips: blank, or a comment.
skipped_line(line) == strip(line) = <<>> \/ Head(line) \in {"#", ";"}

\* The line matches OPTCRE: it starts with neither whitespace nor a separator and
\* holds a separator.
option_line(line) == /\ line # <<>>
                     /\ Head(line) \notin Whitespace \cup {":"}
                     /\ find_from(line, 1, <<":">>) # 0

\* The option name of an option line: what precedes the separator, as one word.
option_name(line) ==
    LET w == rstrip(SubSeq(line, 1, find_from(line, 1, <<":">>) - 1))
    IN IF Len(w) = 1 THEN w[1] ELSE "other"

option_value(line) == strip(SubSeq(line, find_from(line, 1, <<":">>) + 1, Len(line)))

\* readfp over the lines that follow the section heading '[foo]': the options
\* read, each a list of the lines of its value, the option a continuation line
\* belongs to ("" for none), and whether a line could not be parsed.
RECURSIVE read_lines(_, _, _, _, _)
read_lines(lines, k, options, optname, bad) ==
    IF k > Len(lines) THEN [options |-> options, bad |-> bad]
    ELSE IF skipped_line(lines[k])
         THEN read_lines(lines, k + 1, options, optname, bad)
    ELSE IF Head(lines[k]) \in Whitespace /\ optname # ""
         THEN read_lines(lines, k + 1,
                         [options EXCEPT ![optname] = Append(@, strip(lines[k]))],
                         optname, bad)
    ELSE IF option_line(lines[k])
         THEN read_lines(lines, k + 1,
                         (option_name(lines[k]) :> <<option_value(lines[k])>>) @@ options,
                         option_name(lines[k]), bad)
    ELSE read_lines(lines, k + 1, options, optname, TRUE)

\* lines 550-551: the payload, dedented
autocmake_entry(s_out) ==
    str_replace(second_fragment(join_lines(s_out), marker), <<"\n", " ", " ">>, <<"\n">>)

\* lines 555-559: what readfp makes of '[foo]\n' + autocmake_entry
read_entry(s_out) == read_lines(split_lines(autocmake_entry(s_out)), 1, <<>>, "", FALSE)

\* The section foo after readfp: each value with its lines joined.
foo_section(s_out) ==
    [name \in DOMAIN read_entry(s_out).options |->
         join_lines(read_entry(s_out).options[name])]

\* The configuration the parser holds: the one section.
foo_config(s_out) == [foo |-> foo_section(s_out)]

\* lines 561-564: the fields that the payload gives, read with defaults
parsed_fields(s_out, defaults) ==
    [f \in FieldNames |->
        IF has_option(foo_config(s_out), "foo", f)
        THEN Str(cp_get(foo_config(s_out), "foo", f, defaults).v)
        ELSE new_parsed_config[f]]

\* line 564 raises for one of the fields
parsed_fields_raise(s_out, defaults) ==
    \E f \in FieldNames : /\ has_option(foo_config(s_out), "foo", f)
                          /\ ~cp_get(foo_config(s_out), "foo", f, defaults).ok

\* line 533: the marker occurs in s_in
marker_in_text(text) == \E k \in DOMAIN text : Contains(text[k], marker)

\* The most lines of a module text.
MaxLines == 4

Lines == { rst_start,
           <<"#">>,
           <<"#", " ">> \o marker,
           <<"#">> \o marker,
           <<"#", " ", " ", " ", "docopt", ":", " ", "v">>,
           <<"#", " ", " ", " ", " ", " ", "v">>,
           <<"#", " ", " ", " ", "warning", ":">>,
           <<"#", " ", " ", " ", "fetch", ":", " ", "%(x)s">>,
           <<>>,
           <<"c">> }

Texts == UNION { [1..n -> Lines] : n \in 1..MaxLines }

\* The defaults a module is parsed with: none, or an override of x.
ParseDefaults == { <<>>, ("x" :> <<"X">>) }

InitParse ==
    /\ t_text \in Texts
    /\ t_k = 0
    /\ t_rst = FALSE
    /\ t_out = <<>>
    /\ t_parsed = new_parsed_config
    /\ t_pc = "start"
    /\ IdleReplace /\ IdleInterpolate /\ IdleGen /\ IdlePrepend /\ IdleMain

\* lines 533-534: the text holds no marker, the empty record is returned
ParseNoMarker ==
    /\ t_pc = "start"
    /\ ~marker_in_text(t_text)
    /\ t_pc' = "returned"
    /\ UNCHANGED <<t_text, t_k, t_rst, t_out, t_parsed, notParse>>

\* lines 536-537
ParseBegin ==
    /\ t_pc = "start"
    /\ marker_in_text(t_text)
    /\ t_out' = <<>>
    /\ t_rst' = FALSE
    /\ t_k' = 1
    /\ t_pc' = "scan"
    /\ UNCHANGED <<t_text, t_parsed, notParse>>

\* An is_rst_line that no line resets.
always_rst(flag, line) == flag

\* lines 539-544: is_rst_line after the first if statement of the loop body
still_rst(flag, line) == flag /\ line # <<>> /\ Head(line) = "#"

\* lines 538-548, one line of the text
ParseScanLine ==
    /\ t_pc = "scan"
    /\ t_k <= Len(t_text)
    /\ t_out' = IF still_rst(t_rst, t_text[t_k])
                THEN Append(t_out, SubSeq(t_text[t_k], 3, Len(t_text[t_k])))
                ELSE t_out
    /\ t_rst' = (still_rst(t_rst, t_text[t_k]) \/ Contains(t_text[t_k], rst_start))
    /\ t_k' = t_k + 1
    /\ UNCHANGED <<t_text, t_parsed, t_pc, notParse>>

\* line 550: the buffer holds no marker, split(...)[1] raises IndexError
ParseSplitRaise ==
    /\ t_pc = "scan"
    /\ t_k > Len(t_text)
    /\ ~Contains(join_lines(t_out), marker)
    /\ t_pc' = "IndexError"
    /\ UNCHANGED <<t_text, t_k, t_rst, t_out, t_parsed, notParse>>

\* lines 555-559: readfp raises ParsingError for a line that is no option
ParseReadRaise ==
    /\ t_pc = "scan"
    /\ t_k > Len(t_text)
    /\ Contains(join_lines(t_out), marker)
    /\ read_entry(t_out).bad
    /\ t_pc' = "ParsingError"
    /\ UNCHANGED <<t_text, t_k, t_rst, t_out, t_parsed, notParse>>

\* line 564: config.get raises for a reference that defaults does not resolve
ParseGetRaise(defaults) ==
    /\ t_pc = "scan"
    /\ t_k > Len(t_text)
    /\ Contains(join_lines(t_out), marker)
    /\ ~read_entry(t_out).bad
    /\ parsed_fields_raise(t_out, defaults)
    /\ t_pc' = "InterpolationError"
    /\ UNCHANGED <<t_text, t_k, t_rst, t_out, t_parsed, notParse>>

\* lines 550-566: the payload is read and the record returned
ParseReturn(defaults) ==
    /\ t_pc = "scan"
    /\ t_k > Len(t_text)
    /\ Contains(join_lines(t_out), marker)
    /\ ~read_entry(t_out).bad
    /\ ~parsed_fields_raise(t_out, defaults)
    /\ t_parsed' = parsed_fields(t_out, defaults)
    /\ t_pc' = "returned"
    /\ UNCHANGED <<t_text, t_k, t_rst, t_out, notParse>>

NextParse == \/ ParseNoMarker
             \/ ParseBegin
             \/ ParseScanLine
             \/ ParseSplitRaise
             \/ ParseReadRaise
             \/ \E defaults \in ParseDefaults : ParseGetRaise(defaults)
             \/ \E defaults \in ParseDefaults : ParseReturn(defaults)

SpecParse == InitParse /\ [][NextParse]_vars

\* The payload names the field: one of its lines starts with the field's name.
GivenInPayload(f) ==
    \E k \in DOMAIN split_lines(autocmake_entry(t_out)) :
        /\ split_lines(autocmake_entry(t_out))[k] # <<>>
        /\ Head(split_lines(autocmake_entry(t_out))[k]) = f

\* C2: in the record parse_cmake_module returns, every field that the payload does
\* not give is None, never the empty string; a text without the marker gives the
\* record with all five fields None, and raises nothing.
C2_AbsentFieldsAreNone ==
    /\ ~marker_in_text(t_text) =>
           /\ t_pc \in {"idle", "start", "returned"}
           /\ \A f \in FieldNames : t_parsed[f] = None
    /\ t_pc = "returned" /\ marker_in_text(t_text) =>
           \A f \in FieldNames : ~GivenInPayload(f) => t_parsed[f] = None

\* A record was returned for a payload that gives docopt, over two lines, and an
\* empty warning, and gives no define.
C2_Witness ==
    /\ t_pc = "returned"
    /\ marker_in_text(t_text)
    /\ t_parsed["docopt"] = Str(<<"v", "\n", "v">>)
    /\ t_parsed["define"] = None

------------------------------------------------------------------------------
(* main, src/update.py 467-500: from the check of the project root to the call
   of fetch_modules *)

\* The longest project name.
MaxName == 3

NameChars == {"p", " ", "\t"}

\* config['name']: a string of up to MaxName characters, or None for a missing key.
ProjectNames == {None} \cup { Str(s) : s \in UNION { [1..k -> NameChars] : k \in 0..MaxName } }

\* ' ' in project_name.rstrip()
contains_space(project_name) ==
    \E k \in DOMAIN rstrip(project_name) : rstrip(project_name)[k] = " "

mainvars == <<m_isdir, m_name, m_version>>
fetchvars == <<m_config, m_n, m_i, m_sec, m_src, m_cur, m_todo, m_modules, m_warnings,
               m_parsed, m_log, m_stdout, m_written>>

InitMain ==
    /\ m_isdir \in BOOLEAN
    /\ m_name \in ProjectNames
    /\ m_version \in BOOLEAN
    /\ m_pc = "root"
    /\ IdleFetch
    /\ IdleReplace /\ IdleInterpolate /\ IdleGen /\ IdlePrepend /\ IdleParse

\* lines 468-470
MainNotDirectory ==
    /\ m_pc = "root"
    /\ ~m_isdir
    /\ m_stderr' = Append(m_stderr, "ERROR: {} is not a directory")
    /\ m_exit' = -1
    /\ m_pc' = "exited"
    /\ UNCHANGED <<mainvars, fetchvars, notMain>>

\* lines 468-474: the root is a directory, autocmake.yml is read
MainParseYaml ==
    /\ m_pc = "root"
    /\ m_isdir
    /\ m_pc' = "name"
    /\ UNCHANGED <<mainvars, fetchvars, m_stderr, m_exit, notMain>>

\* lines 476-480
MainNameMissing ==
    /\ m_pc = "name"
    /\ m_name = None
    /\ m_stderr' = Append(m_stderr, "ERROR: you have to specify the project name in autocmake.yml")
    /\ m_exit' = -1
    /\ m_pc' = "exited"
    /\ UNCHANGED <<mainvars, fetchvars, notMain>>

\* lines 481-483
MainNameHasSpace ==
    /\ m_pc = "name"
    /\ m_name # None
    /\ contains_space(m_name.v)
    /\ m_stderr' = Append(m_stderr, "ERROR: project name contains a space")
    /\ m_exit' = -1
    /\ m_pc' = "exited"
    /\ UNCHANGED <<mainvars, fetchvars, notMain>>

\* lines 476-483: the name passes
MainNameAccepted ==
    /\ m_pc = "name"
    /\ m_name # None
    /\ ~contains_space(m_name.v)
    /\ m_pc' = "min_cmake_version"
    /\ UNCHANGED <<mainvars, fetchvars, m_stderr, m_exit, notMain>>

\* lines 485-489
MainVersionMissing ==
    /\ m_pc = "min_cmake_version"
    /\ ~m_version
    /\ m_stderr' = Append(m_stderr, "ERROR: you have to specify min_cmake_version in autocmake.yml")
    /\ m_exit' = -1
    /\ m_pc' = "exited"
    /\ UNCHANGED <<mainvars, fetchvars, notMain>>

\* lines 485-500: the version is given; main goes on to call fetch_modules
MainCallFetchModules ==
    /\ m_pc = "min_cmake_version"
    /\ m_version
    /\ m_pc' = "call fetch_modules"
    /\ UNCHANGED <<mainvars, fetchvars, m_stderr, m_exit, notMain>>

NextMain == \/ MainNotDirectory
            \/ MainParseYaml
            \/ MainNameMissing
            \/ MainNameHasSpace
            \/ MainNameAccepted
            \/ MainVersionMissing
            \/ MainCallFetchModules

SpecMain == InitMain /\ [][NextMain]_vars

\* The project name holds a whitespace character.
NameHasWhitespace == m_name # None /\ \E k \in DOMAIN m_name.v : m_name.v[k] \in Whitespace

------------------------------------------------------------------------------
(* fetch_modules, src/update.py 331-411, with fetch_url, 75-85, and
   URLopener.http_error_default, 15-18 *)

download_directory == <<"downloaded">>

\* 'http' in src
has_http(src) == \E k \in DOMAIN src : src[k] = "http:"

\* The position of the last "/" of p at or before i, 0 if there is none.
RECURSIVE last_slash(_, _)
last_slash(p, i) == IF i = 0 \/ p[i] = "/" THEN i ELSE last_slash(p, i - 1)

\* os.path.basename(p)
basename(p) == SubSeq(p, last_slash(p, Len(p)) + 1, Len(p))

\* os.path.dirname(p), for a path without a doubled or a leading slash
dirname(p) == SubSeq(p, 1, last_slash(p, Len(p)) - 1)

\* 'autocmake_{}'.format(module_name)
autocmake_name(module_name) == <<"autocmake_">> \o module_name

\* ast.literal_eval of the text of an override option
literal_eval(text) == IF text = <<"{'x': 'X'}">> THEN ("x" :> <<"X">>) ELSE <<>>

\* 'WARNING from {0}: {1}'.format(module_name, parsed_config['warning'])
warning_from(module_name, warning) == <<"WARNING from ">> \o module_name \o <<": ">> \o warning

\* A pass over line 382 that appends nothing.
no_warning(warnings, module_name, parsed_config) == warnings

\* lines 382-383
add_warning(warnings, module_name, parsed_config) ==
    IF truthy(parsed_config["warning"])
    THEN Append(warnings, warning_from(module_name, parsed_config["warning"].v))
    ELSE warnings

\* lines 384-385: config after the merge of docopt, and of docopt and define
merged_docopt(config, section, parsed_config, defaults) ==
    prepend_or_set(config, section, "docopt", parsed_config["docopt"], defaults)
merged_define(config, section, parsed_config, defaults) ==
    prepend_or_set(merged_docopt(config, section, parsed_config, defaults),
                   section, "define", parsed_config["define"], defaults)

\* lines 384-386: config after the three merges
merged(config, section, parsed_config, defaults) ==
    prepend_or_set(merged_define(config, section, parsed_config, defaults),
                   section, "export", parsed_config["export"], defaults)

\* lines 384-386: one of the three merges raises
merge_raises(config, section, parsed_config, defaults) ==
    IF prepend_or_set_raises(config, section, "docopt", parsed_config["docopt"], defaults)
    THEN TRUE
    ELSE IF prepend_or_set_raises(merged_docopt(config, section, parsed_config, defaults),
                                  section, "define", parsed_config["define"], defaults)
    THEN TRUE
    ELSE prepend_or_set_raises(merged_define(config, section, parsed_config, defaults),
                               section, "export", parsed_config["export"], defaults)

\* lines 374-377
override_defaults(config, section) ==
    IF has_option(config, section, "override")
    THEN literal_eval(cp_get(config, section, "override", <<>>).v)
    ELSE <<>>

\* An http_error_default that returns to the caller of the fetch.
http_error_ignored(resume) == resume

\* sys.exit(-1) in http_error_default: the statement after the fetch is not reached
http_error_default(resume) == "exited"

\* An entry of the log of the run.
Event(ev, what, into, ok) == [ev |-> ev, what |-> what, into |-> into, ok |-> ok]

\* The most sections of a configuration.
MaxSections == 2

\* The sections: one with a fetch list only; one with a remote source; one with
\* a remote and a local source and a fetch list; one whose docopt refers to a
\* key that its override gives; one whose docopt refers to a key nothing gives.
Sections == {
    ("fetch" :> <<"http:", "/", "u", "\n", "http:", "/", "v">>),
    ("source" :> <<"http:", "/", "m">>),
    ("source" :> <<"http:", "/", "m", "\n", "c", "/", "k">>) @@ ("fetch" :> <<"http:", "/", "u">>),
    ("source" :> <<"c", "/", "k">>) @@ ("docopt" :> <<"%(x)s">>) @@ ("override" :> <<"{'x': 'X'}">>),
    ("source" :> <<"k">>) @@ ("docopt" :> <<"%(x)s">>) }

FetchConfigs == UNION { [1..n -> Sections] : n \in 1..MaxSections }

\* What parse_cmake_module returns for the files of the modules: nothing; a
\* warning, an option and a file to fetch; an empty warning and a definition.
ParsedConfigs == {
    all_absent,
    [all_absent EXCEPT !["warning"] = Str(<<"w">>), !["docopt"] = Str(<<"A">>),
                       !["fetch"] = Str(<<"http:", "/", "s">>)],
    [all_absent EXCEPT !["warning"] = Str(<<>>), !["define"] = Str(<<"B">>)] }

InitFetch ==
    /\ m_config \in FetchConfigs
    /\ m_pc = "fetch_modules"
    /\ m_isdir = TRUE /\ m_name = Str(<<"p">>) /\ m_version = TRUE
    /\ m_n = 0 /\ m_i = 0 /\ m_sec = 0 /\ m_src = <<>> /\ m_cur = <<>> /\ m_todo = <<>>
    /\ m_modules = <<>> /\ m_warnings = <<>> /\ m_parsed = <<>> /\ m_log = <<>>
    /\ m_stdout = <<>> /\ m_stderr = <<>> /\ m_exit = 0 /\ m_written = {}
    /\ IdleReplace /\ IdleInterpolate /\ IdleGen /\ IdlePrepend /\ IdleParse

\* lines 337-352
FetchModulesBegin ==
    /\ m_pc = "fetch_modules"
    /\ m_n' = Cardinality({ k \in DOMAIN m_config : has_option(m_config, k, "source") })
    /\ m_i' = 0
    /\ IF m_n' > 0 THEN m_pc' = "section" /\ m_sec' = 1
                   ELSE m_pc' = "report" /\ m_sec' = 0
    /\ UNCHANGED <<mainvars, m_config, m_src, m_cur, m_todo, m_modules, m_warnings,
                   m_parsed, m_log, m_stdout, m_stderr, m_exit, m_written, notMain>>

\* lines 353-355: the next section, and the entries of its source option
SectionSources ==
    /\ m_pc = "section"
    /\ m_sec <= Len(m_config)
    /\ IF has_option(m_config, m_sec, "source")
       THEN /\ m_src' = split_lines(cp_get(m_config, m_sec, "source", <<>>).v)
            /\ m_pc' = "entry"
       ELSE /\ m_src' = <<>>
            /\ m_pc' = "standalone"
    /\ UNCHANGED <<mainvars, m_config, m_n, m_i, m_sec, m_cur, m_todo, m_modules, m_warnings,
                   m_parsed, m_log, m_stdout, m_stderr, m_exit, m_written, notMain>>

\* lines 353, 406: no section is left
SectionsDone ==
    /\ m_pc = "section"
    /\ m_sec > Len(m_config)
    /\ m_pc' = "report"
    /\ UNCHANGED <<mainvars, m_config, m_n, m_i, m_sec, m_src, m_cur, m_todo, m_modules,
                   m_warnings, m_parsed, m_log, m_stdout, m_stderr, m_exit, m_written, notMain>>

\* lines 356-363: a remote entry, fetched into downloaded/
ModuleFetch ==
    /\ m_pc = "entry"
    /\ m_src # <<>>
    /\ has_http(Head(m_src))
    /\ m_cur' = [module_name |-> basename(Head(m_src)),
                 path |-> download_directory,
                 name |-> autocmake_name(basename(Head(m_src))),
                 fetch_dst_directory |-> download_directory]
    /\ m_written' = m_written
           \cup { path_join(download_directory, autocmake_name(basename(Head(m_src)))) }
    /\ m_log' = Append(m_log, Event("fetch", Head(m_src),
               path_join(download_directory, autocmake_name(basename(Head(m_src)))), TRUE))
    /\ m_pc' = "parse"
    /\ UNCHANGED <<mainvars, m_config, m_n, m_i, m_sec, m_src, m_todo, m_modules, m_warnings,
                   m_parsed, m_stdout, m_stderr, m_exit, notMain>>

\* lines 356-361 and 15-18: the fetch of a remote entry fails
ModuleFetchFails ==
    /\ m_pc = "entry"
    /\ m_src # <<>>
    /\ has_http(Head(m_src))
    /\ m_log' = Append(m_log, Event("fetch", Head(m_src),
               path_join(download_directory, autocmake_name(basename(Head(m_src)))), FALSE))
    /\ m_stderr' = Append(m_stderr, "ERROR: could not fetch {}")
    /\ m_exit' = -1
    /\ m_pc' = http_error_default("parse")
    /\ m_cur' = [module_name |-> basename(Head(m_src)),
                 path |-> download_directory,
                 name |-> autocmake_name(basename(Head(m_src))),
                 fetch_dst_directory |-> download_directory]
    /\ UNCHANGED <<mainvars, m_config, m_n, m_i, m_sec, m_src, m_todo, m_modules, m_warnings,
                   m_parsed, m_stdout, m_written, notMain>>

\* lines 364-369: a local entry that exists
ModuleLocal ==
    /\ m_pc = "entry"
    /\ m_src # <<>>
    /\ ~has_http(Head(m_src))
    /\ m_cur' = [module_name |-> basename(Head(m_src)),
                 path |-> dirname(Head(m_src)),
                 name |-> basename(Head(m_src)),
                 fetch_dst_directory |-> dirname(Head(m_src))]
    /\ m_log' = Append(m_log, Event("exists", Head(m_src), <<>>, TRUE))
    /\ m_pc' = "parse"
    /\ UNCHANGED <<mainvars, m_config, m_n, m_i, m_sec, m_src, m_todo, m_modules, m_warnings,
                   m_parsed, m_stdout, m_stderr, m_exit, m_written, notMain>>

\* lines 364-372: a local entry that does not exist
ModuleMissing ==
    /\ m_pc = "entry"
    /\ m_src # <<>>
    /\ ~has_http(Head(m_src))
    /\ m_log' = Append(m_log, Event("exists", Head(m_src), <<>>, FALSE))
    /\ m_stderr' = Append(m_stderr, "ERROR: {} does not exist")
    /\ m_exit' = -1
    /\ m_pc' = "exited"
    /\ UNCHANGED <<mainvars, m_config, m_n, m_i, m_sec, m_src, m_cur, m_todo, m_modules,
                   m_warnings, m_parsed, m_stdout, m_written, notMain>>

\* lines 374-387: the file of the module is parsed, its warning kept, its fields
\* merged into the section, its fetch list taken
ModuleParse(parsed_config) ==
    /\ m_pc = "parse"
    /\ ~merge_raises(m_config, m_sec, parsed_config, override_defaults(m_config, m_sec))
    /\ m_parsed' = Append(m_parsed, [module_name |-> m_cur.module_name,
                                     parsed_config |-> parsed_config])
    /\ m_warnings' = add_warning(m_warnings, m_cur.module_name, parsed_config)
    /\ m_config' = merged(m_config, m_sec, parsed_config, override_defaults(m_config, m_sec))
    /\ m_todo' = IF truthy(parsed_config["fetch"])
                 THEN split_lines(parsed_config["fetch"].v) ELSE <<>>
    /\ m_log' = Append(m_log, Event("parse", m_cur.module_name, <<>>, TRUE))
    /\ m_pc' = "secondary"
    /\ UNCHANGED <<mainvars, m_n, m_i, m_sec, m_src, m_cur, m_modules,
                   m_stdout, m_stderr, m_exit, m_written, notMain>>

\* lines 380-381: the file cannot be read, or parse_cmake_module raises
ModuleParseRaises ==
    /\ m_pc = "parse"
    /\ m_log' = Append(m_log, Event("raise", m_cur.module_name, <<>>, FALSE))
    /\ m_exit' = 1
    /\ m_pc' = "exited"
    /\ UNCHANGED <<mainvars, m_config, m_n, m_i, m_sec, m_src, m_cur, m_todo, m_modules,
                   m_warnings, m_parsed, m_stdout, m_stderr, m_written, notMain>>

\* lines 380-386: the file is parsed, its warning kept, and a merge raises
ModuleMergeRaises(parsed_config) ==
    /\ m_pc = "parse"
    /\ merge_raises(m_config, m_sec, parsed_config, override_defaults(m_config, m_sec))
    /\ m_parsed' = Append(m_parsed, [module_name |-> m_cur.module_name,
                                     parsed_config |-> parsed_config])
    /\ m_warnings' = add_warning(m_warnings, m_cur.module_name, parsed_config)
    /\ m_log' = m_log \o << Event("parse", m_cur.module_name, <<>>, TRUE),
                            Event("raise", m_cur.module_name, <<>>, FALSE) >>
    /\ m_exit' = 1
    /\ m_pc' = "exited"
    /\ UNCHANGED <<mainvars, m_config, m_n, m_i, m_sec, m_src, m_cur, m_todo, m_modules,
                   m_stdout, m_stderr, m_written, notMain>>

\* lines 388-390: a file of the fetch list of the module, into its directory
SecondaryFetch ==
    /\ m_pc = "secondary"
    /\ m_todo # <<>>
    /\ m_written' = m_written
           \cup { path_join(m_cur.fetch_dst_directory, basename(Head(m_todo))) }
    /\ m_log' = Append(m_log, Event("fetch", Head(m_todo),
               path_join(m_cur.fetch_dst_directory, basename(Head(m_todo))), TRUE))
    /\ m_todo' = Tail(m_todo)
    /\ UNCHANGED <<mainvars, m_config, m_pc, m_n, m_i, m_sec, m_src, m_cur, m_modules,
                   m_warnings, m_parsed, m_stdout, m_stderr, m_exit, notMain>>

\* lines 388-390 and 15-18: the fetch fails
SecondaryFetchFails ==
    /\ m_pc = "secondary"
    /\ m_todo # <<>>
    /\ m_log' = Append(m_log, Event("fetch", Head(m_todo),
               path_join(m_cur.fetch_dst_directory, basename(Head(m_todo))), FALSE))
    /\ m_stderr' = Append(m_stderr, "ERROR: could not fetch {}")
    /\ m_exit' = -1
    /\ m_pc' = http_error_default("secondary")
    /\ m_todo' = Tail(m_todo)
    /\ UNCHANGED <<mainvars, m_config, m_n, m_i, m_sec, m_src, m_cur, m_modules,
                   m_warnings, m_parsed, m_stdout, m_written, notMain>>

\* line 392
ModuleRecord ==
    /\ m_pc = "secondary"
    /\ m_todo = <<>>
    /\ m_modules' = Append(m_modules, Module(m_cur.path, m_cur.name))
    /\ m_log' = Append(m_log, Event("record", m_cur.name, m_cur.path, TRUE))
    /\ m_src' = Tail(m_src)
    /\ m_pc' = "entry"
    /\ UNCHANGED <<mainvars, m_config, m_n, m_i, m_sec, m_cur, m_todo, m_warnings,
                   m_parsed, m_stdout, m_stderr, m_exit, m_written, notMain>>

\* lines 393-399: the entries of the section are done
SectionAssembled ==
    /\ m_pc = "entry"
    /\ m_src = <<>>
    /\ m_i' = m_i + 1
    /\ m_pc' = "standalone"
    /\ UNCHANGED <<mainvars, m_config, m_n, m_sec, m_src, m_cur, m_todo, m_modules,
                   m_warnings, m_parsed, m_log, m_stdout, m_stderr, m_exit, m_written, notMain>>

\* lines 400-403: the entries of the fetch option of the section
SectionFetchList ==
    /\ m_pc = "standalone"
    /\ m_todo' = IF has_option(m_config, m_sec, "fetch")
                 THEN split_lines(cp_get(m_config, m_sec, "fetch", <<>>).v)
                 ELSE <<>>
    /\ m_pc' = "fetching"
    /\ UNCHANGED <<mainvars, m_config, m_n, m_i, m_sec, m_src, m_cur, m_modules, m_warnings,
                   m_parsed, m_log, m_stdout, m_stderr, m_exit, m_written, notMain>>

\* lines 403-405: a file of the fetch option, into downloaded/
StandaloneFetch ==
    /\ m_pc = "fetching"
    /\ m_todo # <<>>
    /\ m_written' = m_written \cup { path_join(download_directory, basename(Head(m_todo))) }
    /\ m_log' = Append(m_log, Event("fetch", Head(m_todo),
               path_join(download_directory, basename(Head(m_todo))), TRUE))
    /\ m_todo' = Tail(m_todo)
    /\ UNCHANGED <<mainvars, m_config, m_pc, m_n, m_i, m_sec, m_src, m_cur, m_modules,
                   m_warnings, m_parsed, m_stdout, m_stderr, m_exit, notMain>>

\* lines 403-405 and 15-18: the fetch fails
StandaloneFetchFails ==
    /\ m_pc = "fetching"
    /\ m_todo # <<>>
    /\ m_log' = Append(m_log, Event("fetch", Head(m_todo),
               path_join(download_directory, basename(Head(m_todo))), FALSE))
    /\ m_stderr' = Append(m_stderr, "ERROR: could not fetch {}")
    /\ m_exit' = -1
    /\ m_pc' = http_error_default("fetching")
    /\ m_todo' = Tail(m_todo)
    /\ UNCHANGED <<mainvars, m_config, m_n, m_i, m_sec, m_src, m_cur, m_modules,
                   m_warnings, m_parsed, m_stdout, m_written, notMain>>

\* line 353: the section is done, the loop goes to the next one
NextSection ==
    /\ m_pc = "fetching"
    /\ m_todo = <<>>
    /\ m_sec' = m_sec + 1
    /\ m_pc' = "section"
    /\ UNCHANGED <<mainvars, m_config, m_n, m_i, m_src, m_cur, m_todo, m_modules, m_warnings,
                   m_parsed, m_log, m_stdout, m_stderr, m_exit, m_written, notMain>>

\* lines 408-411: the warnings are printed, the modules returned
ReportWarnings ==
    /\ m_pc = "report"
    /\ m_stdout' = IF m_warnings # <<>> THEN Append(m_stdout, m_warnings) ELSE m_stdout
    /\ m_pc' = "returned"
    /\ UNCHANGED <<mainvars, m_config, m_n, m_i, m_sec, m_src, m_cur, m_todo, m_modules,
                   m_warnings, m_parsed, m_log, m_stderr, m_exit, m_written, notMain>>

NextFetch == \/ FetchModulesBegin
             \/ SectionSources
             \/ SectionsDone
             \/ ModuleFetch
             \/ ModuleFetchFails
             \/ ModuleLocal
             \/ ModuleMissing
             \/ \E parsed_config \in ParsedConfigs : ModuleParse(parsed_config)
             \/ ModuleParseRaises
             \/ \E parsed_config \in ParsedConfigs : ModuleMergeRaises(parsed_config)
             \/ SecondaryFetch
             \/ SecondaryFetchFails
             \/ ModuleRecord
             \/ SectionAssembled
             \/ SectionFetchList
             \/ StandaloneFetch
             \/ StandaloneFetchFails
             \/ NextSection
             \/ ReportWarnings

SpecFetch == InitFetch /\ [][NextFetch]_vars

\* The entries of the fetch option of section k.
StandaloneUrls(k) == split_lines(cp_get(m_config, k, "fetch", <<>>).v)

\* The entries of the source option of section k, none without the option.
SourceEntries(k) ==
    IF has_option(m_config, k, "source")
    THEN split_lines(cp_get(m_config, k, "source", <<>>).v) ELSE <<>>

\* The number of source entries of the sections k..Len(m_config).
RECURSIVE EntriesFrom(_)
EntriesFrom(k) == IF k > Len(m_config) THEN 0 ELSE Len(SourceEntries(k)) + EntriesFrom(k + 1)

\* A fetch that failed, or a path that does not exist.
Failure(e) == e.ev \in {"fetch", "exists"} /\ ~e.ok

\* C6: fetch_modules retrieves every URL of the fetch option of every section
\* into the download directory, whether or not that section, or any section,
\* has a source option.
C6_StandaloneFetchesRetrieved ==
    m_pc = "returned" =>
        \A k \in DOMAIN m_config :
            has_option(m_config, k, "fetch") =>
                \A j \in DOMAIN StandaloneUrls(k) :
                    path_join(download_directory, basename(StandaloneUrls(k)[j])) \in m_written

\* The warnings of the records parsed so far that are present, '' included.
RECURSIVE present_warnings(_)
present_warnings(ps) ==
    IF ps = <<>> THEN <<>>
    ELSE (IF Head(ps).parsed_config["warning"] # None
          THEN << warning_from(Head(ps).module_name, Head(ps).parsed_config["warning"].v) >>
          ELSE <<>>) \o present_warnings(Tail(ps))

\* The warnings of the records parsed so far that are non-empty strings.
RECURSIVE nonempty_warnings(_)
nonempty_warnings(ps) ==
    IF ps = <<>> THEN <<>>
    ELSE (IF truthy(Head(ps).parsed_config["warning"])
          THEN << warning_from(Head(ps).module_name, Head(ps).parsed_config["warning"].v) >>
          ELSE <<>>) \o nonempty_warnings(Tail(ps))

\* The run ends early only after a failure or an exception, the warnings are
\* printed at most once and only on return, and on return every source entry of
\* every section is parsed and recorded and the warnings are printed if there
\* is one.
ReportedOnceAfterAll ==
    /\ m_pc = "exited" => m_log # <<>> /\ ~m_log[Len(m_log)].ok
    /\ Len(m_stdout) <= 1
    /\ m_stdout # <<>> => m_pc = "returned" /\ m_stdout = <<m_warnings>>
    /\ m_pc = "returned" =>
           /\ Len(m_parsed) = EntriesFrom(1)
           /\ Len(m_modules) = EntriesFrom(1)
           /\ m_stdout # <<>> <=> m_warnings # <<>>

C8_FailFast ==
    \A k \in DOMAIN m_log :
        Failure(m_log[k]) =>
            /\ k = Len(m_log)
            /\ m_pc = "exited"
            /\ m_exit # 0
            /\ m_stdout = <<>>

\* A secondary fetch failed after a module was recorded and a file was fetched.
C8_Witness ==
    /\ m_pc = "exited"
    /\ m_log # <<>>
    /\ Failure(m_log[Len(m_log)])
    /\ m_log[Len(m_log)].what = <<"http:", "/", "s">>
    /\ m_modules # <<>>
    /\ m_written # {}

\* Line k is non-empty and begins with '#'.
CommentLine(k) == t_text[k] # <<>> /\ Head(t_text[k]) = "#"

\* Line k contains '#.rst:'.
BlockStart(k) == Contains(t_text[k], rst_start)

\* Line k follows a block-start line, with nothing in between but non-empty
\* lines that begin with '#'.
InBlock(k) ==
    \E j \in 1..(k - 1) : /\ BlockStart(j)
                          /\ \A i \in (j + 1)..(k - 1) : CommentLine(i)

\* The lines among the first n whose index is in kept, each without its first
\* two characters, in the order of the text.
RECURSIVE buffer_of(_, _)
buffer_of(n, kept) ==
    IF n = 0 THEN <<>>
    ELSE buffer_of(n - 1, kept)
             \o (IF n \in kept THEN << SubSeq(t_text[n], 3, Len(t_text[n])) >> ELSE <<>>)

\* A comment line inside a block, whether or not it is a block-start line.
InsideBlock(k) == CommentLine(k) /\ InBlock(k)

\* A comment line inside a block that is no block-start line.
InsideBlockNoStart(k) == CommentLine(k) /\ InBlock(k) /\ ~BlockStart(k)

\* C11, as stated: while the lines are scanned, the buffer holds exactly the
\* comment lines that an unbroken run of comment lines joins to a preceding
\* block-start line, without their first two characters, and no block-start
\* line; the flag tells whether the next line is inside a block.
C11_BlockLinesWithoutStarts ==
    t_pc = "scan" =>
        /\ t_out = buffer_of(t_k - 1, { k \in DOMAIN t_text : InsideBlockNoStart(k) })
        /\ t_rst = InBlock(t_k)

\* C11, amended: the buffer holds exactly the comment lines that an unbroken run
\* of comment lines joins to a preceding block-start line, without their first
\* two characters; a block-start line is among them when it lies inside a block
\* that an earlier block-start line opened, and is not appended otherwise; the
\* flag tells whether the next line is inside a block.
C11_BlockLines ==
    t_pc = "scan" =>
        /\ t_out = buffer_of(t_k - 1, { k \in DOMAIN t_text : InsideBlock(k) })
        /\ t_rst = InBlock(t_k)

\* The scan is over a text in which a block-start line lies inside a block and
\* was appended, and a later comment line lies outside every block.
C11_Witness ==
    /\ t_pc = "scan"
    /\ t_k > Len(t_text)
    /\ \E k \in DOMAIN t_text : BlockStart(k) /\ InsideBlock(k)
    /\ \E k \in DOMAIN t_text : k > 1 /\ CommentLine(k) /\ ~InBlock(k)
    /\ t_out = << <<"rst", ":">> >>

\* C12: when the text holds the marker, so does the buffer made of the lines of
\* the documentation blocks, and the split at line 550 does not fail.
C12_MarkerReachesBuffer ==
    /\ t_pc # "IndexError"
    /\ (t_pc = "scan" /\ t_k > Len(t_text)) => Contains(join_lines(t_out), marker)

====
